---- MODULE Spec2Model ----
(***************************************************************************)
(* Complaint lifecycle, department routing, assignment and notification    *)
(* of the PublicCare API.  The store holds users, departments (in storage  *)
(* order) and complaints; every request handler is one action.  Two sets   *)
(* of handlers exist side by side in the source and both are modelled:     *)
(* the controller functions of controllers/complaints.js and the inline    *)
(* route handlers of the complaints router.                                *)
(*                                                                         *)
(* Request bodies carry the fields the validation middleware declares      *)
(* (validateComplaintCreation, validateComplaintUpdate); the body of the   *)
(* controller's update, which is written to the record whole, carries the  *)
(* rating and resolvedAt as well.  An absent string field is "none", an    *)
(* absent id is NoId, an absent rating is NoRating, an absent date Null.   *)
(***************************************************************************)
EXTENDS Integers, Sequences, FiniteSets, Bags, TLC

VARIABLES users, departments, complaints, now, req, res, emitted,
          reviews, pending, reviewIndex, ioThrows, joined

vars == <<users, departments, complaints, now, req, res, emitted,
          reviews, pending, reviewIndex, ioThrows, joined>>

(***************************************************************************)
(* Bounds of the model.                                                    *)
(***************************************************************************)
MaxComplaints == 2
MaxDepts == 2
MaxTime == 1
MaxUpdates == 1
TicksPerHour == 2
MaxRequests == 2
MaxReviews == 2
MaxSockets == 1
MaxStaff == 2

(***************************************************************************)
(* Enumerations of the schemas.                                            *)
(***************************************************************************)
Statuses == {"submitted", "under_review", "in_progress", "resolved", "closed"}

Priorities == {"low", "medium", "high", "critical"}

Categories == {"electricity", "water", "roads", "sanitation", "street_lights",
               "drainage", "public_transport", "other"}

Roles == {"citizen", "provider", "admin"}

UpdateTypes == {"status_change", "progress_update", "message"}

\* Position of a status in the lifecycle order of the status enumeration.
Rank(s) ==
  CASE s = "submitted" -> 1
    [] s = "under_review" -> 2
    [] s = "in_progress" -> 3
    [] s = "resolved" -> 4
    [] s = "closed" -> 5

\* null of a Date / Number path, and null of an ObjectId path
Null == -1
NoId == 0

\* null of the rating path, and the ratings the schema accepts (min 1, max 5)
NoRating == 0
Ratings == 1..5

\* ids of the user documents of the store, and an id no user document has
UserIds == {1, 2, 3}
MissingUser == Cardinality(UserIds) + 1

ComplaintIds == 1..MaxComplaints

Sockets == 1..MaxSockets

(***************************************************************************)
(* Socket.IO rooms and the events handlers emit to them.                   *)
(***************************************************************************)
RoleRoom(role) == [kind |-> "role", name |-> role, id |-> NoId]

ComplaintRoom(id) == [kind |-> "complaint", name |-> "", id |-> id]

Event(room, name, id, old, new, who) ==
  [room |-> room, event |-> name, complaint |-> id,
   oldStatus |-> old, newStatus |-> new, assignedTo |-> who]

\* The status the error middleware answers an error passed to next() with.
errorHandler == 500

\* io.to(room).emit(...) of a handler: the events reach their rooms unless the
\* call throws, and a throw inside the handler's try block reaches
\* next(error) in place of the handler's own response.
Publish(events) == IF ioThrows THEN << >> ELSE events

Answer(status) == IF ioThrows THEN errorHandler ELSE status

(***************************************************************************)
(* Requests.                                                               *)
(***************************************************************************)
Request(op, actor, id) ==
  [op |-> op, actor |-> actor, id |-> id, category |-> "none",
   priority |-> "none", isEmergency |-> FALSE, status |-> "none",
   assignedTo |-> NoId, rating |-> NoRating, feedback |-> "none",
   type |-> "none"]

NoRequest == Request("none", NoId, NoId)

(***************************************************************************)
(* Department queries.                                                     *)
(***************************************************************************)
\* Variants of the query, each what a slip in the filter or in the choice of the
\* result would make of it: the last match first, the isActive filter
\* dropped, the category filter dropped.
findByCategory_last(category) ==
  LET n == Len(departments)
      rev == [i \in 1..n |-> n + 1 - i]
  IN SelectSeq(rev, LAMBDA d :
        category \in departments[d].categories /\ departments[d].isActive)

findByCategory_inactive(category) ==
  SelectSeq([i \in 1..Len(departments) |-> i],
            LAMBDA d : category \in departments[d].categories)

findByCategory_all(category) ==
  SelectSeq([i \in 1..Len(departments) |-> i], LAMBDA d : departments[d].isActive)

\* find({categories: category, isActive: true}): the ids (storage positions) of
\* the matching departments, in storage order
findByCategory(category) ==
  SelectSeq([i \in 1..Len(departments) |-> i],
            LAMBDA d : category \in departments[d].categories /\ departments[d].isActive)

findByService(category) ==
  SelectSeq([i \in 1..Len(departments) |-> i],
            LAMBDA d : category \in departments[d].categories /\ departments[d].isActive)

\* Department schema: no `settings` path, so department.settings is undefined
autoAssignment(d) == FALSE

(***************************************************************************)
(* Complaint documents.                                                    *)
(***************************************************************************)
\* a new document with the schema defaults
NewComplaint(category, priority, isEmergency, submittedBy, department, t) ==
  [category |-> category,
   status |-> "submitted",
   priority |-> IF priority = "none" THEN "medium" ELSE priority,
   isEmergency |-> isEmergency,
   submittedBy |-> submittedBy,
   assignedTo |-> NoId,
   department |-> department,
   createdAt |-> t,
   resolvedAt |-> Null,
   actualResolutionTime |-> Null,
   rating |-> NoRating,
   feedback |-> "none",
   updates |-> << >>]

\* complaintSchema.pre('save'): old is the document as loaded, doc as modified
preSave(old, doc, t) ==
  IF doc.status # old.status /\ doc.status = "resolved" /\ doc.resolvedAt = Null
  THEN [doc EXCEPT !.resolvedAt = t,
                   !.actualResolutionTime = (t - doc.createdAt) \div TicksPerHour]
  ELSE doc

Exists(id) == id \in DOMAIN complaints


Role(u) == users[u]

\* authorize(...roles) of the auth middleware
authorize(actor, roles) == Role(actor) \in roles

\* the store's write of an existing document, and its insert of a new one
Put(id, doc) == [complaints EXCEPT ![id] = doc]

NewId == CHOOSE id \in ComplaintIds \ DOMAIN complaints :
           \A other \in ComplaintIds \ DOMAIN complaints : id <= other

Insert(id, doc) == [i \in DOMAIN complaints \cup {id} |->
                      IF i = id THEN doc ELSE complaints[i]]

(***************************************************************************)
(* controllers/complaints.js                                               *)
(***************************************************************************)
createComplaint(actor, category, priority, isEmergency) ==
  LET found == findByCategory(category)
      r == [Request("createComplaint", actor, NoId) EXCEPT
              !.category = category, !.priority = priority,
              !.isEmergency = isEmergency]
  IN /\ req' = r
     /\ IF found = << >>
        THEN /\ res' = 400
             /\ emitted' = << >>
             /\ UNCHANGED complaints
        ELSE LET doc == NewComplaint(category,
                                     IF isEmergency THEN "critical" ELSE priority,
                                     isEmergency, actor, found[1], now)
                 id == NewId
             IN /\ Cardinality(DOMAIN complaints) < MaxComplaints
                /\ complaints' = Insert(id, doc)
                /\ emitted' = Publish(
                     <<Event(RoleRoom("admin"), "new-complaint", id, "none", "none", NoId)>>
                     \o (IF doc.isEmergency
                         THEN <<Event(RoleRoom("provider"), "emergency-complaint", id,
                                      "none", "none", NoId)>>
                         ELSE << >>))
                /\ res' = Answer(201)
     /\ UNCHANGED <<users, departments, now, reviews, pending, reviewIndex, ioThrows, joined>>

updateComplaint(actor, id, status, priority, assignedTo, rating, resolvedAt) ==
  LET r == [Request("updateComplaint", actor, id) EXCEPT
              !.status = status, !.priority = priority, !.assignedTo = assignedTo,
              !.rating = rating]
  IN /\ req' = r
     /\ IF ~Exists(id)
        THEN /\ res' = 404
             /\ emitted' = << >>
             /\ UNCHANGED complaints
        ELSE LET old == complaints[id]
                 oldStatus == old.status
                 newStatus == status
                 \* findByIdAndUpdate(id, req.body): every field of the body is
                 \* written, no save hook runs
                 doc == [old EXCEPT
                           !.status = IF status = "none" THEN @ ELSE status,
                           !.priority = IF priority = "none" THEN @ ELSE priority,
                           !.assignedTo = IF assignedTo = NoId THEN @ ELSE assignedTo,
                           !.rating = IF rating = NoRating THEN @ ELSE rating,
                           !.resolvedAt = IF resolvedAt = Null THEN @ ELSE resolvedAt]
             IN /\ complaints' = Put(id, doc)
                /\ IF oldStatus # newStatus /\ newStatus # "none"
                   THEN /\ emitted' = Publish(
                             <<Event(ComplaintRoom(id), "status-update", id,
                                     oldStatus, newStatus, NoId),
                               Event(RoleRoom("citizen"), "complaint-update", id,
                                     "none", newStatus, NoId)>>)
                        /\ res' = Answer(200)
                   ELSE /\ emitted' = << >>
                        /\ res' = 200
     /\ UNCHANGED <<users, departments, now, reviews, pending, reviewIndex, ioThrows, joined>>

\* Variant of the write that is refused when the status is no longer the one
\* the handler read.
updateComplaintWrite_serialized(p) ==
  /\ BagIn(p, pending)
  /\ p.stage = "updateWrite"
  /\ req' = [Request("updateComplaint", p.actor, p.id) EXCEPT !.status = p.status]
  /\ pending' = pending (-) SetToBag({p})
  /\ IF Exists(p.id) /\ complaints[p.id].status = p.oldStatus
     THEN /\ complaints' = Put(p.id, [complaints[p.id] EXCEPT !.status = p.status])
          /\ emitted' = Publish(<<Event(ComplaintRoom(p.id), "status-update", p.id,
                                        p.oldStatus, p.status, NoId),
                                  Event(RoleRoom("citizen"), "complaint-update", p.id,
                                        "none", p.status, NoId)>>)
          /\ res' = Answer(200)
     ELSE /\ res' = 409
          /\ emitted' = << >>
          /\ UNCHANGED complaints
  /\ UNCHANGED <<users, departments, now, reviews, reviewIndex, ioThrows, joined>>

\* updateComplaint suspends at its two store calls.  Its first step is the
\* findById, which reads oldStatus; its second is the findByIdAndUpdate of
\* the body (here a status) followed by the emits.
updateComplaintFind(actor, id, status) ==
  /\ req' = [Request("updateComplaint", actor, id) EXCEPT !.status = status]
  /\ emitted' = << >>
  /\ IF ~Exists(id)
     THEN res' = 404 /\ UNCHANGED pending
     ELSE /\ BagCardinality(pending) < MaxRequests
          /\ pending' = pending (+)
               SetToBag({[stage |-> "updateWrite", actor |-> actor, id |-> id,
                          status |-> status, oldStatus |-> complaints[id].status]})
          /\ res' = 0
  /\ UNCHANGED <<users, departments, complaints, now, reviews, reviewIndex,
                 ioThrows, joined>>

updateComplaintWrite(p) ==
  /\ BagIn(p, pending)
  /\ p.stage = "updateWrite"
  /\ req' = [Request("updateComplaint", p.actor, p.id) EXCEPT !.status = p.status]
  /\ pending' = pending (-) SetToBag({p})
  /\ LET oldStatus == p.oldStatus
         newStatus == p.status
         changed == oldStatus # newStatus /\ newStatus # "none"
     IN IF Exists(p.id)
        THEN /\ complaints' = Put(p.id, [complaints[p.id] EXCEPT
                                  !.status = IF newStatus = "none" THEN @ ELSE newStatus])
             /\ emitted' = IF changed
                           THEN Publish(
                                  <<Event(ComplaintRoom(p.id), "status-update", p.id,
                                          oldStatus, newStatus, NoId),
                                    Event(RoleRoom("citizen"), "complaint-update", p.id,
                                          "none", newStatus, NoId)>>)
                           ELSE << >>
             /\ res' = IF changed THEN Answer(200) ELSE 200
        \* findByIdAndUpdate returns null: the emit reads complaint._id of null
        ELSE /\ UNCHANGED complaints
             /\ emitted' = << >>
             /\ res' = IF changed THEN errorHandler ELSE 200
  /\ UNCHANGED <<users, departments, now, reviews, reviewIndex, ioThrows, joined>>

addComplaintUpdate(actor, id, type) ==
  LET r == [Request("addComplaintUpdate", actor, id) EXCEPT !.type = type]
  IN /\ req' = r
     /\ IF ~Exists(id)
        THEN /\ res' = 404
             /\ emitted' = << >>
             /\ UNCHANGED complaints
        ELSE LET old == complaints[id]
                 update == [type |-> IF type = "none" THEN "progress_update" ELSE type,
                            createdBy |-> actor]
                 doc == [old EXCEPT !.updates = Append(@, update)]
             IN /\ Len(old.updates) < MaxUpdates
                /\ complaints' = Put(id, preSave(old, doc, now))
                /\ emitted' = Publish(<<Event(ComplaintRoom(id), "new-update", id,
                                              "none", "none", NoId)>>)
                /\ res' = Answer(200)
     /\ UNCHANGED <<users, departments, now, reviews, pending, reviewIndex, ioThrows, joined>>

\* Variant of the status check that lets closed complaints through.
isResolved_orClosed(doc) == doc.status \in {"resolved", "closed"}

\* the status check of rateComplaint, of PUT /:id/feedback and of POST /reviews
isResolved(doc) == doc.status = "resolved"

rateComplaint(actor, id, rating, feedback) ==
  LET r == [Request("rateComplaint", actor, id) EXCEPT
              !.rating = rating, !.feedback = feedback]
  IN /\ req' = r
     /\ emitted' = << >>
     /\ IF ~Exists(id)
        THEN /\ res' = 404
             /\ UNCHANGED complaints
        ELSE IF ~isResolved(complaints[id])
        THEN /\ res' = 400
             /\ UNCHANGED complaints
        ELSE LET old == complaints[id]
                 doc == [old EXCEPT !.rating = rating, !.feedback = feedback]
             IN /\ complaints' = Put(id, preSave(old, doc, now))
                /\ res' = 200
     /\ UNCHANGED <<users, departments, now, reviews, pending, reviewIndex, ioThrows, joined>>

\* Variant of the provider check that accepts every existing user.
isProvider_any(u) == u \in DOMAIN users

\* the provider check of assignComplaint and of PUT /:id/assign
isProvider(u) == u \in DOMAIN users /\ users[u] = "provider"

\* Variant of assignComplaint that stores the assignee before it checks it.
assignComplaint_writeFirst(actor, id, assignedTo) ==
  /\ req' = [Request("assignComplaint", actor, id) EXCEPT !.assignedTo = assignedTo]
  /\ IF ~Exists(id)
     THEN /\ res' = 404
          /\ emitted' = << >>
          /\ UNCHANGED complaints
     ELSE /\ complaints' = Put(id, [complaints[id] EXCEPT
                                      !.assignedTo = assignedTo,
                                      !.status = "under_review"])
          /\ IF isProvider(assignedTo)
             THEN /\ emitted' = Publish(<<Event(ComplaintRoom(id), "assignment-update",
                                                id, "none", "none", assignedTo)>>)
                  /\ res' = Answer(200)
             ELSE /\ emitted' = << >>
                  /\ res' = 400
  /\ UNCHANGED <<users, departments, now, reviews, pending, reviewIndex, ioThrows, joined>>

assignComplaint(actor, id, assignedTo) ==
  LET r == [Request("assignComplaint", actor, id) EXCEPT !.assignedTo = assignedTo]
  IN /\ req' = r
     /\ IF ~Exists(id)
        THEN /\ res' = 404
             /\ emitted' = << >>
             /\ UNCHANGED complaints
        ELSE IF ~isProvider(assignedTo)
        THEN /\ res' = 400
             /\ emitted' = << >>
             /\ UNCHANGED complaints
        ELSE LET old == complaints[id]
                 doc == [old EXCEPT !.assignedTo = assignedTo,
                                    !.status = "under_review"]
             IN /\ complaints' = Put(id, preSave(old, doc, now))
                /\ emitted' = Publish(<<Event(ComplaintRoom(id), "assignment-update",
                                              id, "none", "none", assignedTo)>>)
                /\ res' = Answer(200)
     /\ UNCHANGED <<users, departments, now, reviews, pending, reviewIndex, ioThrows, joined>>

(***************************************************************************)
(* The complaints router (inline handlers).                                *)
(***************************************************************************)
\* "Check permissions" of PUT /:id and POST /:id/updates
canUpdate(actor, doc) ==
  \/ Role(actor) = "admin"
  \/ actor = doc.submittedBy
  \/ actor = doc.assignedTo

routerPostComplaint(actor, category, priority, isEmergency) ==
  LET found == findByService(category)
      r == [Request("routerPostComplaint", actor, NoId) EXCEPT
              !.category = category, !.priority = priority,
              !.isEmergency = isEmergency]
  IN /\ req' = r
     /\ emitted' = << >>
     /\ IF found = << >>
        THEN /\ res' = 400
             /\ UNCHANGED complaints
        ELSE LET department == found[1]
                 doc == NewComplaint(category, priority, isEmergency, actor,
                                     department, now)
                 \* auto-assignment calls department.getAvailableStaff, which the
                 \* Department schema does not define: it would throw after the
                 \* complaint was created
             IN /\ Cardinality(DOMAIN complaints) < MaxComplaints
                /\ complaints' = Insert(NewId, doc)
                /\ res' = IF autoAssignment(department) THEN 500 ELSE 201
     /\ UNCHANGED <<users, departments, now, reviews, pending, reviewIndex, ioThrows, joined>>

routerPutComplaint(actor, id, status, priority, assignedTo) ==
  LET r == [Request("routerPutComplaint", actor, id) EXCEPT
              !.status = status, !.priority = priority, !.assignedTo = assignedTo]
  IN /\ req' = r
     /\ emitted' = << >>
     /\ IF ~Exists(id)
        THEN /\ res' = 404
             /\ UNCHANGED complaints
        ELSE IF ~canUpdate(actor, complaints[id])
        THEN /\ res' = 403
             /\ UNCHANGED complaints
        ELSE LET old == complaints[id]
                 \* status, priority and assignedTo are allowed fields for
                 \* providers and admins only
                 more == Role(actor) \in {"provider", "admin"}
                 uStatus == IF more THEN status ELSE "none"
                 uPriority == IF more THEN priority ELSE "none"
                 uAssignedTo == IF more THEN assignedTo ELSE NoId
                 changing == uStatus # "none" /\ uStatus # old.status
                 pushed == IF changing
                           THEN Append(old.updates,
                                       [type |-> "status_change", createdBy |-> actor])
                           ELSE old.updates
                 doc == [old EXCEPT
                           !.updates = pushed,
                           !.status = IF uStatus = "none" THEN @ ELSE uStatus,
                           !.priority = IF uPriority = "none" THEN @ ELSE uPriority,
                           !.assignedTo = IF uAssignedTo = NoId THEN @ ELSE uAssignedTo]
             IN /\ changing => Len(old.updates) < MaxUpdates
                /\ complaints' = Put(id, preSave(old, doc, now))
                /\ res' = 200
     /\ UNCHANGED <<users, departments, now, reviews, pending, reviewIndex, ioThrows, joined>>

routerPostUpdates(actor, id, type) ==
  LET r == [Request("routerPostUpdates", actor, id) EXCEPT !.type = type]
  IN /\ req' = r
     /\ emitted' = << >>
     /\ IF ~Exists(id)
        THEN /\ res' = 404
             /\ UNCHANGED complaints
        ELSE IF ~canUpdate(actor, complaints[id])
        THEN /\ res' = 403
             /\ UNCHANGED complaints
        ELSE LET old == complaints[id]
                 update == [type |-> IF type = "none" THEN "progress_update" ELSE type,
                            createdBy |-> actor]
                 doc == [old EXCEPT !.updates = Append(@, update)]
             IN /\ Len(old.updates) < MaxUpdates
                /\ complaints' = Put(id, preSave(old, doc, now))
                /\ res' = 201
     /\ UNCHANGED <<users, departments, now, reviews, pending, reviewIndex, ioThrows, joined>>

\* complaintSchema defines no assignTo method: the call throws a TypeError,
\* which the handler's catch answers with 500
routerPutAssign(actor, id, assignedTo) ==
  LET r == [Request("routerPutAssign", actor, id) EXCEPT !.assignedTo = assignedTo]
  IN /\ req' = r
     /\ emitted' = << >>
     /\ res' = IF ~authorize(actor, {"admin", "provider"}) THEN 403
               ELSE IF assignedTo = NoId THEN 400
               ELSE IF ~Exists(id) THEN 404
               ELSE IF ~isProvider(assignedTo) THEN 400
               ELSE 500
     /\ UNCHANGED <<users, departments, complaints, now, reviews, pending, reviewIndex, ioThrows, joined>>

\* Assigning the object {rating, comment, submittedAt} to the String path
\* feedback is a cast error: save() rejects, nothing is stored and the
\* handler's catch answers 500.
feedbackCast == 500

routerPutFeedback(actor, id, rating) ==
  LET r == [Request("routerPutFeedback", actor, id) EXCEPT !.rating = rating]
  IN /\ req' = r
     /\ emitted' = << >>
     /\ res' = IF rating \notin Ratings THEN 400
               ELSE IF ~Exists(id) THEN 404
               ELSE IF actor # complaints[id].submittedBy THEN 403
               ELSE IF ~isResolved(complaints[id]) THEN 400
               ELSE feedbackCast
     /\ UNCHANGED <<users, departments, complaints, now, reviews, pending,
                    reviewIndex, ioThrows, joined>>

(***************************************************************************)
(* Deleting a complaint.  The controller's deleteComplaint removes the     *)
(* document.  The router's DELETE /:id sets isArchived, a path the schema  *)
(* does not declare, and saves: the stored document is unchanged.          *)
(***************************************************************************)
deleteComplaint(actor, id) ==
  /\ req' = Request("deleteComplaint", actor, id)
  /\ emitted' = << >>
  /\ IF ~Exists(id)
     THEN res' = 404 /\ UNCHANGED complaints
     ELSE /\ complaints' = [i \in DOMAIN complaints \ {id} |-> complaints[i]]
          /\ res' = 200
  /\ UNCHANGED <<users, departments, now, reviews, pending, reviewIndex,
                 ioThrows, joined>>

routerDeleteComplaint(actor, id) ==
  /\ req' = Request("routerDeleteComplaint", actor, id)
  /\ emitted' = << >>
  /\ res' = IF ~Exists(id) THEN 404
            ELSE IF Role(actor) # "admin" /\ actor # complaints[id].submittedBy THEN 403
            ELSE 200
  /\ UNCHANGED <<users, departments, complaints, now, reviews, pending,
                 reviewIndex, ioThrows, joined>>

(***************************************************************************)
(* The reviews router: POST /reviews for a review of a complaint.  The     *)
(* handler suspends at each store call, so it is three steps: the lookup   *)
(* of the complaint with the checks on it, the lookup of an existing       *)
(* review, and the insert.  pending is the bag of the handlers that are    *)
(* suspended, at most MaxRequests at a time.                               *)
(***************************************************************************)
Review(complaint, user, rating) ==
  [complaint |-> complaint, user |-> user, type |-> "complaint", rating |-> rating]

\* Variant of the lookup that matches on the user alone.
existingReview_byUser(complaint, user) ==
  \E i \in 1..Len(reviews) : reviews[i].user = user

\* Review.findOne({complaint, user})
existingReview(complaint, user) ==
  \E i \in 1..Len(reviews) :
    reviews[i].complaint = complaint /\ reviews[i].user = user

Suspended(user, complaint, rating, stage) ==
  [user |-> user, complaint |-> complaint, rating |-> rating, stage |-> stage]

ReviewRequest(actor, complaint, rating) ==
  [Request("reviewsPost", actor, complaint) EXCEPT !.rating = rating]

\* Complaint.findById and the checks on the complaint
reviewsPostFind(actor, complaint, rating) ==
  /\ req' = ReviewRequest(actor, complaint, rating)
  /\ emitted' = << >>
  /\ IF ~Exists(complaint)
     THEN res' = 404 /\ UNCHANGED pending
     ELSE IF ~isResolved(complaints[complaint])
     THEN res' = 400 /\ UNCHANGED pending
     ELSE IF complaints[complaint].submittedBy # actor
     THEN res' = 403 /\ UNCHANGED pending
     ELSE /\ BagCardinality(pending) < MaxRequests
          /\ pending' = pending (+)
               SetToBag({Suspended(actor, complaint, rating, "findOne")})
          /\ res' = 0
  /\ UNCHANGED <<users, departments, complaints, now, reviews, reviewIndex, ioThrows, joined>>

\* Review.findOne and the check on its result
reviewsPostExisting(p) ==
  /\ BagIn(p, pending)
  /\ p.stage = "findOne"
  /\ req' = ReviewRequest(p.user, p.complaint, p.rating)
  /\ emitted' = << >>
  /\ IF existingReview(p.complaint, p.user)
     THEN /\ res' = 400
          /\ pending' = pending (-) SetToBag({p})
     ELSE /\ res' = 0
          /\ pending' = (pending (-) SetToBag({p})) (+)
               SetToBag({Suspended(p.user, p.complaint, p.rating, "create")})
  /\ UNCHANGED <<users, departments, complaints, now, reviews, reviewIndex, ioThrows, joined>>

\* Review.create, then complaint.feedback = {...} and complaint.save(): with
\* the unique index on (complaint, user) a second review of the pair is a
\* duplicate key error; the save that follows the insert fails on the cast
\* of feedback, so the handler answers 500 after the review was stored
reviewsPostCreate(p) ==
  /\ BagIn(p, pending)
  /\ p.stage = "create"
  /\ req' = ReviewRequest(p.user, p.complaint, p.rating)
  /\ emitted' = << >>
  /\ pending' = pending (-) SetToBag({p})
  /\ IF reviewIndex /\ existingReview(p.complaint, p.user)
     THEN /\ res' = 500
          /\ UNCHANGED reviews
     ELSE /\ Len(reviews) < MaxReviews
          /\ reviews' = Append(reviews, Review(p.complaint, p.user, p.rating))
          /\ res' = feedbackCast
  /\ UNCHANGED <<users, departments, complaints, now, reviewIndex, ioThrows, joined>>

(***************************************************************************)
(* controllers/departments.js                                              *)
(***************************************************************************)
activeComplaints(d) ==
  Cardinality({id \in DOMAIN complaints :
                 /\ complaints[id].department = d
                 /\ complaints[id].status \in {"submitted", "under_review", "in_progress"}})

deleteDepartment(actor, d) ==
  /\ authorize(actor, {"admin"})
  /\ req' = Request("deleteDepartment", actor, d)
  /\ emitted' = << >>
  /\ IF d \notin 1..Len(departments)
     THEN /\ res' = 404
          /\ UNCHANGED departments
     ELSE IF activeComplaints(d) > 0
     THEN /\ res' = 400
          /\ UNCHANGED departments
     ELSE /\ departments' = [departments EXCEPT ![d].isActive = FALSE]
          /\ res' = 200
  /\ UNCHANGED <<users, complaints, now, reviews, pending, reviewIndex, ioThrows, joined>>

\* deleteDepartment suspends at its store calls.  Its first step looks the
\* department up and counts the active complaints; its second step, for a
\* handler that counted none, saves the department with isActive false.
deleteDepartmentCount(actor, d) ==
  /\ authorize(actor, {"admin"})
  /\ req' = Request("deleteDepartment", actor, d)
  /\ emitted' = << >>
  /\ IF d \notin 1..Len(departments)
     THEN res' = 404 /\ UNCHANGED pending
     ELSE IF activeComplaints(d) > 0
     THEN res' = 400 /\ UNCHANGED pending
     ELSE /\ BagCardinality(pending) < MaxRequests
          /\ pending' = pending (+)
               SetToBag({[stage |-> "deleteSave", actor |-> actor, department |-> d]})
          /\ res' = 0
  /\ UNCHANGED <<users, departments, complaints, now, reviews, reviewIndex, ioThrows, joined>>

deleteDepartmentSave(p) ==
  /\ BagIn(p, pending)
  /\ p.stage = "deleteSave"
  /\ req' = Request("deleteDepartment", p.actor, p.department)
  /\ emitted' = << >>
  /\ pending' = pending (-) SetToBag({p})
  /\ departments' = [departments EXCEPT ![p.department].isActive = FALSE]
  /\ res' = 200
  /\ UNCHANGED <<users, complaints, now, reviews, reviewIndex, ioThrows, joined>>

(***************************************************************************)
(* Staff of a department.  A staff entry names its user and carries        *)
(* isActive.  addStaff pushes an active entry; removeStaff clears isActive *)
(* of the first entry of the user, whichever its isActive.                 *)
(***************************************************************************)
addStaff(department, userId) ==
  [department EXCEPT !.staff = Append(@, [user |-> userId, isActive |-> TRUE])]

firstEntry(department, userId) ==
  CHOOSE i \in 1..Len(department.staff) :
    /\ department.staff[i].user = userId
    /\ \A j \in 1..i - 1 : department.staff[j].user # userId

removeStaff(department, userId) ==
  IF \E i \in 1..Len(department.staff) : department.staff[i].user = userId
  THEN [department EXCEPT !.staff[firstEntry(department, userId)].isActive = FALSE]
  ELSE department

existingStaff(department, userId) ==
  \E i \in 1..Len(department.staff) :
    department.staff[i].user = userId /\ department.staff[i].isActive

addStaffToDepartment(actor, d, userId) ==
  /\ authorize(actor, {"admin"})
  /\ req' = [Request("addStaffToDepartment", actor, d) EXCEPT !.assignedTo = userId]
  /\ emitted' = << >>
  /\ IF d \notin 1..Len(departments) \/ userId \notin DOMAIN users
     THEN res' = 404 /\ UNCHANGED <<departments, users>>
     ELSE IF existingStaff(departments[d], userId)
     THEN res' = 400 /\ UNCHANGED <<departments, users>>
     ELSE /\ Len(departments[d].staff) < MaxStaff
          /\ departments' = [departments EXCEPT ![d] = addStaff(@, userId)]
          /\ users' = [users EXCEPT
                         ![userId] = IF @ = "citizen" THEN "provider" ELSE @]
          /\ res' = 200
  /\ UNCHANGED <<complaints, now, reviews, pending, reviewIndex, ioThrows, joined>>

\* Department.findOne({head: user, isActive: true}) on the store `store`
isHeadOfDepartment(store, userId) ==
  \E d \in 1..Len(store) : store[d].head = userId /\ store[d].isActive

removeStaffFromDepartment(actor, d, userId) ==
  /\ authorize(actor, {"admin"})
  /\ req' = [Request("removeStaffFromDepartment", actor, d) EXCEPT !.assignedTo = userId]
  /\ emitted' = << >>
  /\ IF d \notin 1..Len(departments) \/ userId \notin DOMAIN users
     THEN res' = 404 /\ UNCHANGED <<departments, users>>
     ELSE /\ departments' = [departments EXCEPT ![d] = removeStaff(@, userId)]
          /\ users' = IF isHeadOfDepartment(departments', userId)
                      THEN users
                      ELSE [users EXCEPT ![userId] = "citizen"]
          /\ res' = 200
  /\ UNCHANGED <<complaints, now, reviews, pending, reviewIndex, ioThrows, joined>>

(***************************************************************************)
(* The departments router: PUT /departments/:id.  The body's isActive is   *)
(* "true", "false" or "none" when absent; its head is a user id or NoId.   *)
(***************************************************************************)
routerPutDepartment(actor, d, isActive, head) ==
  /\ authorize(actor, {"admin"})
  /\ req' = [Request("routerPutDepartment", actor, d) EXCEPT !.assignedTo = head]
  /\ emitted' = << >>
  /\ IF d \notin 1..Len(departments)
     THEN res' = 404 /\ UNCHANGED departments
     ELSE IF head # NoId /\ ~(head \in DOMAIN users /\ users[head] = "provider")
     THEN res' = 400 /\ UNCHANGED departments
     ELSE /\ departments' =
               [departments EXCEPT
                  ![d].isActive = IF isActive = "none" THEN @ ELSE isActive = "true",
                  ![d].head = IF head = NoId THEN @ ELSE head]
          /\ res' = 200
  /\ UNCHANGED <<users, complaints, now, reviews, pending, reviewIndex, ioThrows, joined>>

(***************************************************************************)
(* server.js, io.on('connection'): joined[s] is the set of rooms of the    *)
(* connection s.  A join adds the room named by the message to that set;   *)
(* the handlers emit nothing.  Any connection may name any room.           *)
(***************************************************************************)
SocketMessage(op, s, id) == [Request(op, NoId, id) EXCEPT !.assignedTo = s]

joinRoleRoom(s, role) ==
  /\ joined' = [joined EXCEPT ![s] = @ \cup {RoleRoom(role)}]
  /\ req' = [SocketMessage("join-role-room", s, NoId) EXCEPT !.type = role]
  /\ res' = 0
  /\ emitted' = << >>
  /\ UNCHANGED <<users, departments, complaints, now, reviews, pending,
                 reviewIndex, ioThrows>>

joinComplaintRoom(s, complaintId) ==
  /\ joined' = [joined EXCEPT ![s] = @ \cup {ComplaintRoom(complaintId)}]
  /\ req' = SocketMessage("join-complaint-room", s, complaintId)
  /\ res' = 0
  /\ emitted' = << >>
  /\ UNCHANGED <<users, departments, complaints, now, reviews, pending,
                 reviewIndex, ioThrows>>

disconnect(s) ==
  /\ joined' = [joined EXCEPT ![s] = {}]
  /\ req' = SocketMessage("disconnect", s, NoId)
  /\ res' = 0
  /\ emitted' = << >>
  /\ UNCHANGED <<users, departments, complaints, now, reviews, pending,
                 reviewIndex, ioThrows>>

\* the messages of the sequence of emits that reach connection s: each emit
\* to a room reaches every connection in that room at the time of the emit
Delivered(events, s) == SelectSeq(events, LAMBDA e : e.room \in joined[s])

(***************************************************************************)
(* Time passes between requests.                                           *)
(***************************************************************************)
Tick ==
  /\ now < MaxTime
  /\ now' = now + 1
  /\ UNCHANGED <<users, departments, complaints, req, res, emitted,
               reviews, pending, reviewIndex, ioThrows, joined>>

(***************************************************************************)
(* The store after seeding, and the requests clients send.                 *)
(***************************************************************************)
SeedUsers == (1 :> "admin") @@ (2 :> "provider") @@ (3 :> "citizen")

SeedDepartments ==
  <<[categories |-> {"water"}, isActive |-> TRUE, head |-> NoId, staff |-> << >>],
    [categories |-> {"water", "roads"}, isActive |-> TRUE, head |-> NoId,
     staff |-> << >>]>>

\* department stores of up to MaxDepts active departments, in every storage order
DepartmentStores ==
  UNION {[1..n -> [categories : {{"water"}, {"roads"}, {"water", "roads"}},
                   isActive : {TRUE}, head : {NoId}, staff : {<< >>}]] :
         n \in 0..MaxDepts}

CategoryInputs == {"water", "roads", "other"}
PriorityInputs == {"none", "low"}
StatusInputs == Statuses \cup {"none"}
AssigneeInputs == {2, 3, MissingUser}
RatingInputs == {5}
FeedbackInputs == {"none", "thanks"}

InitStore ==
  /\ users = SeedUsers
  /\ complaints = << >>
  /\ now = 0
  /\ req = NoRequest
  /\ res = 0
  /\ emitted = << >>
  /\ reviews = << >>
  /\ pending = EmptyBag
  /\ joined = [s \in Sockets |-> {}]

(***************************************************************************)
(* Spec: the lifecycle of one complaint routed to the seeded departments,   *)
(* from its creation on, under every handler that reads or writes it.      *)
(***************************************************************************)
Init ==
  /\ InitStore
  /\ departments = SeedDepartments
  /\ reviewIndex = FALSE
  /\ ioThrows = FALSE

Next ==
  \/ \E actor \in {2, 3} :
       complaints = << >> /\ createComplaint(actor, "water", "none", FALSE)
  \/ \E actor \in {2, 3} :
       complaints = << >> /\ routerPostComplaint(actor, "water", "none", FALSE)
  \/ \E actor \in UserIds, id \in {1}, status \in StatusInputs,
        assignedTo \in {NoId, 2} :
       updateComplaint(actor, id, status, "none", assignedTo, NoRating, Null)
  \/ \E actor \in UserIds, id \in {1}, status \in StatusInputs,
        assignedTo \in {NoId, 2} :
       routerPutComplaint(actor, id, status, "none", assignedTo)
  \/ \E actor \in {1, 2}, id \in {1} : addComplaintUpdate(actor, id, "none")
  \/ \E actor \in UserIds, id \in {1} : routerPostUpdates(actor, id, "none")
  \/ \E actor \in UserIds, id \in {1}, rating \in RatingInputs :
       rateComplaint(actor, id, rating, "none")
  \/ \E actor \in {1, 2}, id \in {1}, assignedTo \in AssigneeInputs :
       assignComplaint(actor, id, assignedTo)
  \/ \E actor \in {2, 3}, id \in {1}, assignedTo \in {NoId, 2} :
       routerPutAssign(actor, id, assignedTo)
  \/ Tick

Spec == Init /\ [][Next]_vars

(***************************************************************************)
(* SpecCreate: routing of new complaints against every department store,   *)
(* with departments being deactivated once their complaints are closed.    *)
(***************************************************************************)
InitCreate ==
  /\ InitStore
  /\ departments \in DepartmentStores
  /\ reviewIndex = FALSE
  /\ ioThrows = FALSE

NextCreate ==
  \/ \E category \in CategoryInputs : createComplaint(3, category, "none", FALSE)
  \/ \E category \in CategoryInputs : routerPostComplaint(3, category, "none", FALSE)
  \/ \E id \in ComplaintIds : updateComplaint(1, id, "closed", "none", NoId, NoRating, Null)
  \/ \E d \in 1..MaxDepts : deleteDepartment(1, d)

SpecCreate == InitCreate /\ [][NextCreate]_vars

(***************************************************************************)
(* SpecPriority: priority and emergency flag of new complaints.            *)
(***************************************************************************)
NextPriority ==
  \/ \E actor \in {2, 3}, priority \in PriorityInputs, isEmergency \in BOOLEAN :
       createComplaint(actor, "water", priority, isEmergency)
  \/ \E actor \in {2, 3}, priority \in PriorityInputs, isEmergency \in BOOLEAN :
       routerPostComplaint(actor, "water", priority, isEmergency)
  \/ \E actor \in UserIds, id \in ComplaintIds, priority \in {"high", "critical"} :
       routerPutComplaint(actor, id, "none", priority, NoId)

SpecPriority == Init /\ [][NextPriority]_vars

(***************************************************************************)
(* SpecAssign: assignment of complaints in every status.                   *)
(***************************************************************************)
NextAssign ==
  \/ createComplaint(3, "water", "none", FALSE)
  \/ \E id \in ComplaintIds, status \in Statuses :
       updateComplaint(1, id, status, "none", NoId, NoRating, Null)
  \/ \E actor \in {1, 2}, id \in ComplaintIds, assignedTo \in AssigneeInputs :
       assignComplaint(actor, id, assignedTo)
  \/ \E actor \in UserIds, id \in ComplaintIds,
        assignedTo \in {NoId} \cup AssigneeInputs :
       routerPutAssign(actor, id, assignedTo)

SpecAssign == Init /\ [][NextAssign]_vars

(***************************************************************************)
(* SpecWrite: the writes of assignedTo and rating, by every handler that   *)
(* can write them, with bodies naming providers, citizens and missing      *)
(* users.                                                                  *)
(***************************************************************************)
NextWrite ==
  \/ createComplaint(3, "water", "none", FALSE)
  \/ \E actor \in UserIds, id \in ComplaintIds, status \in {"none", "resolved"},
        assignedTo \in {NoId} \cup AssigneeInputs, rating \in {NoRating} \cup RatingInputs :
       updateComplaint(actor, id, status, "none", assignedTo, rating, Null)
  \/ \E actor \in UserIds, id \in ComplaintIds,
        assignedTo \in {NoId} \cup AssigneeInputs :
       routerPutComplaint(actor, id, "none", "none", assignedTo)
  \/ \E actor \in {1, 2}, id \in ComplaintIds, assignedTo \in AssigneeInputs :
       assignComplaint(actor, id, assignedTo)
  \/ \E actor \in UserIds, id \in ComplaintIds, rating \in RatingInputs :
       rateComplaint(actor, id, rating, "none")

SpecWrite == Init /\ [][NextWrite]_vars

(***************************************************************************)
(* SpecRate: ratings of complaints in every status, by their submitter and *)
(* by other users, through both rating handlers.                           *)
(***************************************************************************)
NextRate ==
  \/ complaints = << >> /\ createComplaint(3, "water", "none", FALSE)
  \/ \E id \in {1}, status \in Statuses :
       updateComplaint(1, id, status, "none", NoId, NoRating, Null)
  \/ \E actor \in UserIds, id \in {1}, rating \in Ratings,
        feedback \in FeedbackInputs :
       rateComplaint(actor, id, rating, feedback)
  \/ \E actor \in UserIds, id \in {1}, rating \in {NoRating} \cup Ratings :
       routerPutFeedback(actor, id, rating)

SpecRate == Init /\ [][NextRate]_vars

(***************************************************************************)
(* SpecReview: reviews of complaints by concurrent requests, on a store    *)
(* with and without the unique index on (complaint, user) of the reviews   *)
(* collection, which createIndexes of config/database.js creates and no    *)
(* code of the server calls.                                               *)
(***************************************************************************)
InitReview ==
  /\ InitStore
  /\ departments = SeedDepartments
  /\ reviewIndex \in BOOLEAN
  /\ ioThrows = FALSE

NextReview ==
  \/ createComplaint(3, "water", "none", FALSE)
  \/ \E id \in ComplaintIds, status \in {"resolved", "closed"} :
       updateComplaint(1, id, status, "none", NoId, NoRating, Null)
  \/ \E actor \in {2, 3}, id \in ComplaintIds, rating \in RatingInputs :
       reviewsPostFind(actor, id, rating)
  \/ \E p \in BagToSet(pending) : reviewsPostExisting(p)
  \/ \E p \in BagToSet(pending) : reviewsPostCreate(p)

SpecReview == InitReview /\ [][NextReview]_vars

(***************************************************************************)
(* SpecNotify: the controller's handlers that publish, with a Socket.IO    *)
(* server whose emit returns and with one whose emit throws.               *)
(***************************************************************************)
InitNotify ==
  /\ InitStore
  /\ departments = SeedDepartments
  /\ reviewIndex = FALSE
  /\ ioThrows \in BOOLEAN

NextNotify ==
  \/ \E isEmergency \in BOOLEAN : createComplaint(3, "water", "none", isEmergency)
  \/ \E id \in ComplaintIds, status \in {"none", "in_progress", "resolved"} :
       updateComplaint(2, id, status, "none", NoId, NoRating, Null)
  \/ \E id \in ComplaintIds : addComplaintUpdate(3, id, "none")
  \/ \E id \in ComplaintIds, assignedTo \in {2, 3} :
       assignComplaint(1, id, assignedTo)

SpecNotify == InitNotify /\ [][NextNotify]_vars

(***************************************************************************)
(* SpecDept: deactivation of departments, by deleteDepartment interleaved  *)
(* with complaint creation and by the department update.                   *)
(***************************************************************************)
NextDept ==
  \/ \E category \in {"water", "roads"} : createComplaint(3, category, "none", FALSE)
  \/ \E id \in ComplaintIds : updateComplaint(1, id, "closed", "none", NoId, NoRating, Null)
  \/ \E d \in 1..MaxDepts + 1 : deleteDepartmentCount(1, d)
  \/ \E p \in BagToSet(pending) : deleteDepartmentSave(p)
  \/ \E d \in 1..MaxDepts, isActive \in {"true", "false"} :
       routerPutDepartment(1, d, isActive, NoId)

SpecDept == Init /\ [][NextDept]_vars

(***************************************************************************)
(* SpecDelete: complaints are created, updated and deleted through both    *)
(* delete handlers.                                                        *)
(***************************************************************************)
NextDelete ==
  \/ \E actor \in {2, 3}, category \in {"water", "roads"}, priority \in {"none", "high"} :
       createComplaint(actor, category, priority, FALSE)
  \/ \E id \in ComplaintIds, status \in {"in_progress", "resolved"} :
       updateComplaint(1, id, status, "none", NoId, NoRating, Null)
  \/ \E actor \in UserIds, id \in ComplaintIds : deleteComplaint(actor, id)
  \/ \E actor \in UserIds, id \in ComplaintIds : routerDeleteComplaint(actor, id)
  \/ Tick

SpecDelete == Init /\ [][NextDelete]_vars

(***************************************************************************)
(* SpecStaff: an admin adds users to the staff of the departments and      *)
(* removes them, and names heads of departments.                           *)
(***************************************************************************)
NextStaff ==
  \/ \E d \in 1..MaxDepts + 1, userId \in UserIds \cup {MissingUser} :
       addStaffToDepartment(1, d, userId)
  \/ \E d \in 1..MaxDepts + 1, userId \in UserIds \cup {MissingUser} :
       removeStaffFromDepartment(1, d, userId)
  \/ \E isActive \in {"none", "false"} : routerPutDepartment(1, 1, isActive, 2)

SpecStaff == Init /\ [][NextStaff]_vars

(***************************************************************************)
(* SpecResolve: one complaint is resolved, reopened and resolved again     *)
(* while time passes, through the status change that saves the document    *)
(* and through the update that writes its body to the store.  The body of  *)
(* the update carries a status, or a resolvedAt and no status.             *)
(***************************************************************************)
NextResolve ==
  \/ complaints = << >> /\ createComplaint(3, "water", "none", FALSE)
  \/ \E status \in {"in_progress", "resolved"} :
       routerPutComplaint(1, 1, status, "none", NoId)
  \/ \E status \in {"in_progress", "resolved"} :
       updateComplaint(1, 1, status, "none", NoId, NoRating, Null)
  \/ \E resolvedAt \in 0..MaxTime :
       updateComplaint(1, 1, "none", "none", NoId, NoRating, resolvedAt)
  \/ Tick

SpecResolve == Init /\ [][NextResolve]_vars

(***************************************************************************)
(* SpecSocket: connections join rooms and leave while one complaint is     *)
(* created and its status is updated.                                      *)
(***************************************************************************)
NextSocket ==
  \/ \E isEmergency \in BOOLEAN :
       complaints = << >> /\ createComplaint(3, "water", "none", isEmergency)
  \/ \E status \in {"in_progress", "resolved"} :
       updateComplaint(1, 1, status, "none", NoId, NoRating, Null)
  \/ \E s \in Sockets, role \in {"citizen", "admin", "provider"} : joinRoleRoom(s, role)
  \/ \E s \in Sockets : joinComplaintRoom(s, 1)
  \/ \E s \in Sockets : disconnect(s)

SpecSocket == Init /\ [][NextSocket]_vars

(***************************************************************************)
(* SpecRace: status updates of one complaint by the controller, each in    *)
(* two steps, so that the steps of several requests interleave.            *)
(***************************************************************************)
NextRace ==
  \/ complaints = << >> /\ createComplaint(3, "water", "none", FALSE)
  \/ \E actor \in {1, 2}, status \in {"in_progress", "resolved", "closed"} :
       updateComplaintFind(actor, 1, status)
  \/ \E p \in BagToSet(pending) : updateComplaintWrite(p)

SpecRace == Init /\ [][NextRace]_vars

(***************************************************************************)
(* SpecReject: the five controller operations on complaints, with the      *)
(* requests they refuse among their inputs: a category no department       *)
(* serves, the id of no complaint, an assignee who is no provider, a       *)
(* rating of a complaint that is not resolved.                             *)
(***************************************************************************)
NextReject ==
  \/ \E category \in {"water", "other"} : createComplaint(3, category, "none", FALSE)
  \/ \E id \in ComplaintIds, status \in {"none", "resolved"} :
       updateComplaint(2, id, status, "none", NoId, NoRating, Null)
  \/ \E id \in ComplaintIds : addComplaintUpdate(2, id, "none")
  \/ \E id \in ComplaintIds : rateComplaint(3, id, 5, "none")
  \/ \E id \in ComplaintIds, assignedTo \in AssigneeInputs :
       assignComplaint(1, id, assignedTo)

SpecReject == InitNotify /\ [][NextReject]_vars

(***************************************************************************)
(* Vocabulary of the properties.                                           *)
(***************************************************************************)
CreateOps == {"createComplaint", "routerPostComplaint"}
StatusUpdateOps == {"updateComplaint", "routerPutComplaint"}
AssignOps == {"assignComplaint", "routerPutAssign"}
RateOps == {"rateComplaint", "routerPutFeedback"}
PublishOps == {"createComplaint", "updateComplaint", "addComplaintUpdate",
               "assignComplaint"}

\* the step handles a request (every handler leaves the clock alone and
\* records the request it handled)
Handles(ops) == req'.op \in ops /\ now' = now

\* the documents the step inserted
Inserted == DOMAIN complaints' \ DOMAIN complaints

\* department d is active and serves the category
Serves(d, category) ==
  /\ d \in 1..Len(departments)
  /\ departments[d].isActive
  /\ category \in departments[d].categories

(***************************************************************************)
(* C1: every stored complaint has status resolved iff resolvedAt is set    *)
(* iff actualResolutionTime is set.                                        *)
(***************************************************************************)
C1_ResolvedIffTimestamps ==
  \A id \in DOMAIN complaints :
    /\ (complaints[id].status = "resolved") <=> (complaints[id].resolvedAt # Null)
    /\ (complaints[id].resolvedAt # Null) <=>
         (complaints[id].actualResolutionTime # Null)

(***************************************************************************)
(* C2: a status update from submitted straight to in_progress is rejected  *)
(* with a 400 and changes nothing when the actor is not an admin, and      *)
(* succeeds and stores in_progress when the actor is an admin.             *)
(***************************************************************************)
C2_SkipRejectedUnlessAdmin ==
  [][(/\ Handles(StatusUpdateOps)
      /\ Exists(req'.id)
      /\ complaints[req'.id].status = "submitted"
      /\ req'.status = "in_progress")
     => IF Role(req'.actor) = "admin"
        THEN res' = 200 /\ complaints'[req'.id].status = "in_progress"
        ELSE res' = 400 /\ complaints' = complaints]_vars

(***************************************************************************)
(* C3: no request of a non-admin actor moves a complaint's status to an    *)
(* earlier position of the order submitted < under_review < in_progress <  *)
(* resolved < closed.                                                      *)
(***************************************************************************)
C3_NoBackwardByNonAdmin ==
  [][(/\ now' = now
      /\ req'.actor \in DOMAIN users
      /\ Role(req'.actor) # "admin")
     => \A id \in DOMAIN complaints \cap DOMAIN complaints' :
          Rank(complaints'[id].status) >= Rank(complaints[id].status)]_vars

(***************************************************************************)
(* C4: a complaint created with isEmergency true has priority critical     *)
(* right after creation, on either creation path, whatever priority the    *)
(* request carried.                                                        *)
(***************************************************************************)
C4_EmergencyIsCritical ==
  [][(Handles(CreateOps) /\ res' = 201)
     => \A id \in Inserted :
          complaints'[id].isEmergency => complaints'[id].priority = "critical"]_vars

(***************************************************************************)
(* C5: a creation for a category that no active department serves answers *)
(* 400, stores nothing and publishes nothing; every stored complaint       *)
(* references a department of the store.                                   *)
(***************************************************************************)
C5_NoDepartmentNoComplaint ==
  [][/\ (/\ Handles(CreateOps)
         /\ ~\E d \in 1..Len(departments) : Serves(d, req'.category))
        => (res' = 400 /\ complaints' = complaints /\ emitted' = << >>)
     /\ \A id \in DOMAIN complaints' :
          complaints'[id].department \in 1..Len(departments')]_vars

C5_Witness ==
  /\ req.op \in CreateOps
  /\ res = 400
  /\ emitted = << >>
  /\ \E d \in 1..Len(departments) :
       req.category \in departments[d].categories /\ ~departments[d].isActive
  /\ \E d \in 1..Len(departments) :
       req.category \notin departments[d].categories /\ departments[d].isActive

LastInserted == CHOOSE id \in DOMAIN complaints : \A other \in DOMAIN complaints : other <= id

C7_FirstMatchDeterministic ==
  [][Handles(CreateOps)
     => /\ departments' = departments
        /\ users' = users
        /\ res' = 201 =>
             \A id \in Inserted :
               /\ Serves(complaints'[id].department, req'.category)
               /\ \A d \in 1..Len(departments) :
                    Serves(d, req'.category) => complaints'[id].department <= d
               /\ (req.op \in CreateOps /\ res = 201 /\ req.category = req'.category)
                    => complaints'[id].department = complaints[LastInserted].department]_vars

C7_Witness ==
  /\ req.op \in CreateOps
  /\ res = 201
  /\ Cardinality(DOMAIN complaints) = 2
  /\ Len(departments) = 2
  /\ Serves(1, req.category) /\ Serves(2, req.category)
  /\ \A id \in DOMAIN complaints :
       complaints[id].department = 1 /\ complaints[id].category = req.category

(***************************************************************************)
(* C8: assigning a complaint to a user that does not exist or is no        *)
(* provider answers 400, leaves the complaint as it was and publishes no   *)
(* assignment event.                                                       *)
(***************************************************************************)
C8_InvalidProviderRejected ==
  [][(/\ Handles(AssignOps)
      /\ Exists(req'.id)
      /\ req'.assignedTo # NoId
      /\ (req'.op = "routerPutAssign" => Role(req'.actor) \in {"admin", "provider"})
      /\ ~(req'.assignedTo \in DOMAIN users /\ users[req'.assignedTo] = "provider"))
     => /\ res' = 400
        /\ complaints' = complaints
        /\ emitted' = << >>]_vars

C8_Witness ==
  /\ req.op = "assignComplaint"
  /\ res = 400
  /\ req.assignedTo \in DOMAIN users
  /\ users[req.assignedTo] = "citizen"
  /\ Exists(req.id)
  /\ complaints[req.id].status = "in_progress"
  /\ complaints[req.id].assignedTo = 2
  /\ emitted = << >>

(***************************************************************************)
(* C9: assigning a complaint to the provider it is already assigned to     *)
(* leaves the complaint unchanged and publishes no event; assigning        *)
(* another provider overwrites assignedTo and publishes one event.         *)
(***************************************************************************)
C9_AssignIdempotent ==
  [][(/\ Handles({"assignComplaint"})
      /\ res' = 200)
     => IF complaints[req'.id].assignedTo = req'.assignedTo
        THEN complaints' = complaints /\ emitted' = << >>
        ELSE /\ complaints'[req'.id].assignedTo = req'.assignedTo
             /\ Len(emitted') = 1]_vars

(***************************************************************************)
(* C10: a successful assign sets assignedTo; it moves the status to        *)
(* under_review when the status was submitted and otherwise leaves status, *)
(* resolvedAt and actualResolutionTime as they were.                       *)
(***************************************************************************)
C10_AssignAdvancesOnlySubmitted ==
  [][(/\ Handles({"assignComplaint"})
      /\ res' = 200)
     => LET old == complaints[req'.id]
            new == complaints'[req'.id]
        IN /\ new.assignedTo = req'.assignedTo
           /\ new.status = IF old.status = "submitted" THEN "under_review"
                           ELSE old.status
           /\ new.resolvedAt = old.resolvedAt
           /\ new.actualResolutionTime = old.actualResolutionTime]_vars

(***************************************************************************)
(* C11: whenever a step writes a complaint's assignedTo (on insert or by   *)
(* changing it) to a user id, that id is the id of a user whose role is    *)
(* provider at that step.                                                  *)
(***************************************************************************)
C11_AssignedToIsProvider ==
  [][\A id \in DOMAIN complaints' :
       LET to == complaints'[id].assignedTo
           written == \/ id \notin DOMAIN complaints
                      \/ to # complaints[id].assignedTo
       IN (written /\ to # NoId) => (to \in DOMAIN users /\ users[to] = "provider")]_vars

C13_OnlySubmitterRates ==
  [][(/\ Handles(RateOps)
      /\ Exists(req'.id)
      /\ req'.rating \in Ratings
      /\ req'.actor # complaints[req'.id].submittedBy)
     => /\ res' # 200
        /\ complaints[req'.id].status = "resolved" => res' = 403
        /\ complaints'[req'.id].rating = complaints[req'.id].rating
        /\ complaints'[req'.id].feedback = complaints[req'.id].feedback]_vars

(***************************************************************************)
(* C14: every step that changes the rating of a stored complaint acts on   *)
(* a resolved complaint: the complaint's status is resolved before the     *)
(* step or after it.                                                       *)
(***************************************************************************)
C14_RatingOnlyWhenResolved ==
  [][\A id \in DOMAIN complaints \cap DOMAIN complaints' :
       complaints'[id].rating # complaints[id].rating
         => \/ complaints[id].status = "resolved"
            \/ complaints'[id].status = "resolved"]_vars

(***************************************************************************)
(* C15: when the handler of POST /reviews looks for an existing review and *)
(* the store holds a review of the same complaint by the same user, the    *)
(* request ends with 400 and the reviews are left as they were; when the   *)
(* store holds no review of that pair, whatever other reviews it holds,    *)
(* the request is not refused and goes on to the insert.                   *)
(***************************************************************************)
C15_DuplicateReviewRejected ==
  [][\A p \in BagToSet(pending) :
       (p.stage = "findOne" /\ CopiesIn(p, pending') < CopiesIn(p, pending))
       => IF \E i \in 1..Len(reviews) :
               reviews[i].complaint = p.complaint /\ reviews[i].user = p.user
          THEN /\ res' = 400
               /\ reviews' = reviews
               /\ BagCardinality(pending') = BagCardinality(pending) - 1
          ELSE /\ res' # 400
               /\ reviews' = reviews
               /\ BagCardinality(pending') = BagCardinality(pending)
               /\ CopiesIn([p EXCEPT !.stage = "create"], pending') =
                    CopiesIn([p EXCEPT !.stage = "create"], pending) + 1]_vars

C15_Witness ==
  /\ req.op = "reviewsPost"
  /\ res = 400
  /\ pending = EmptyBag
  /\ Exists(req.id)
  /\ complaints[req.id].status = "resolved"
  /\ complaints[req.id].submittedBy = req.actor
  /\ Len(reviews) = 2
  /\ reviews[1].user = req.actor /\ reviews[1].complaint = req.id
  /\ reviews[2].user = req.actor /\ reviews[2].complaint # req.id

(***************************************************************************)
(* C16: in every interleaving of the steps of concurrent POST /reviews     *)
(* requests, no two reviews of the store are of the same complaint by the  *)
(* same user, and every review is inserted while its complaint is resolved *)
(* and was submitted by the reviewing user.                                *)
(***************************************************************************)
C16_OneReviewPerPair ==
  [][/\ \A i, j \in 1..Len(reviews') :
          (i # j) => \/ reviews'[i].complaint # reviews'[j].complaint
                     \/ reviews'[i].user # reviews'[j].user
     /\ \A i \in (1..Len(reviews')) \ (1..Len(reviews)) :
          /\ Exists(reviews'[i].complaint)
          /\ complaints[reviews'[i].complaint].status = "resolved"
          /\ complaints[reviews'[i].complaint].submittedBy = reviews'[i].user]_vars

(***************************************************************************)
(* C17: a successful creation, on either creation path, publishes exactly  *)
(* one event about the new complaint to the admin room, one to the         *)
(* provider room when the stored complaint is an emergency, and no other   *)
(* event.                                                                  *)
(***************************************************************************)
C17_CreationPublished ==
  [][(Handles(CreateOps) /\ res' = 201)
     => \A id \in Inserted :
          LET to(room) == {i \in 1..Len(emitted') :
                             emitted'[i].room = room /\ emitted'[i].complaint = id}
          IN /\ Cardinality(to(RoleRoom("admin"))) = 1
             /\ Cardinality(to(RoleRoom("provider"))) =
                  (IF complaints'[id].isEmergency THEN 1 ELSE 0)
             /\ Len(emitted') = Cardinality(to(RoleRoom("admin")))
                                 + Cardinality(to(RoleRoom("provider")))]_vars

(***************************************************************************)
(* C18: a request that changes a stored complaint's status from s to t     *)
(* publishes one status event with the complaint's id, s and t to the      *)
(* complaint's room and one with the id and t to the citizen room; a       *)
(* request that leaves the status as it was publishes no status event      *)
(* about the complaint.                                                    *)
(***************************************************************************)
C18_StatusChangePublished ==
  [][now' = now =>
     \A id \in DOMAIN complaints \cap DOMAIN complaints' :
       LET s == complaints[id].status
           t == complaints'[id].status
           toRoom == {i \in 1..Len(emitted') :
                       /\ emitted'[i].room = ComplaintRoom(id)
                       /\ emitted'[i].event = "status-update"
                       /\ emitted'[i].complaint = id}
           toCitizens == {i \in 1..Len(emitted') :
                           /\ emitted'[i].room = RoleRoom("citizen")
                           /\ emitted'[i].event = "complaint-update"
                           /\ emitted'[i].complaint = id}
       IN IF s # t
          THEN /\ Cardinality(toRoom) = 1
               /\ Cardinality(toCitizens) = 1
               /\ \A i \in toRoom :
                    emitted'[i].oldStatus = s /\ emitted'[i].newStatus = t
               /\ \A i \in toCitizens : emitted'[i].newStatus = t
          ELSE toRoom = {} /\ toCitizens = {}]_vars

(***************************************************************************)
(* C19: a request that changes a stored complaint's status appends exactly *)
(* one update record of type status_change, created by the acting user, to *)
(* the end of the complaint's updates list.                                *)
(***************************************************************************)
C19_StatusChangeRecorded ==
  [][now' = now =>
     \A id \in DOMAIN complaints \cap DOMAIN complaints' :
       complaints'[id].status # complaints[id].status
         => complaints'[id].updates =
              Append(complaints[id].updates,
                     [type |-> "status_change", createdBy |-> req'.actor])]_vars

(***************************************************************************)
(* C20: when the publish call throws, a request to createComplaint,        *)
(* updateComplaint, addComplaintUpdate or assignComplaint that changed the *)
(* store is still answered with its success response (200 or 201).         *)
(***************************************************************************)
C20_PublishFailureSwallowed ==
  [][(/\ Handles(PublishOps)
      /\ ioThrows
      /\ complaints' # complaints)
     => res' \in {200, 201}]_vars

(***************************************************************************)
(* C21: no step deactivates or removes a department that a complaint in    *)
(* status submitted, under_review or in_progress references.               *)
(***************************************************************************)
C21_NoDeactivationWithActiveComplaints ==
  [][/\ Len(departments') >= Len(departments)
     /\ \A d \in 1..Len(departments) :
          (departments[d].isActive /\ ~departments'[d].isActive)
            => activeComplaints(d) = 0]_vars

(***************************************************************************)
(* C22: no step removes a complaint from the store: every complaint that   *)
(* can be found by id before a step can be found by id after it.           *)
(***************************************************************************)
C22_NoComplaintRemoved ==
  [][DOMAIN complaints \subseteq DOMAIN complaints']_vars

\* user u has an active staff entry in department d of the store `store`
ActiveStaff(store, d, u) ==
  \E i \in 1..Len(store[d].staff) :
    store[d].staff[i].user = u /\ store[d].staff[i].isActive

StaffOps == {"addStaffToDepartment", "removeStaffFromDepartment"}

(***************************************************************************)
(* C23: a successful addStaffToDepartment of a citizen leaves the user a   *)
(* provider; a successful removeStaffFromDepartment leaves the user a      *)
(* citizen if afterwards the user is active staff of no department and     *)
(* head of no active department, and leaves the role unchanged otherwise.  *)
(***************************************************************************)
C23_RoleFollowsStaffMembership ==
  [][(Handles(StaffOps) /\ res' = 200) =>
       LET u == req'.assignedTo
           free == /\ \A d \in 1..Len(departments') : ~ActiveStaff(departments', d, u)
                   /\ ~isHeadOfDepartment(departments', u)
       IN IF req'.op = "addStaffToDepartment"
          THEN users[u] = "citizen" => users'[u] = "provider"
          ELSE users'[u] = IF free THEN "citizen" ELSE users[u]]_vars

(***************************************************************************)
(* C28: a successful removeStaffFromDepartment(d, u) leaves department d   *)
(* with no active staff entry of u, and no department ever holds two       *)
(* active staff entries of one user.                                       *)
(***************************************************************************)
C28_RemoveLeavesNoActiveEntry ==
  [][/\ (Handles({"removeStaffFromDepartment"}) /\ res' = 200)
          => ~ActiveStaff(departments', req'.id, req'.assignedTo)
     /\ \A d \in 1..Len(departments') :
          \A i, j \in 1..Len(departments'[d].staff) :
            (/\ i # j
             /\ departments'[d].staff[i].user = departments'[d].staff[j].user
             /\ departments'[d].staff[i].isActive)
              => ~departments'[d].staff[j].isActive]_vars

(***************************************************************************)
(* C29: addStaffToDepartment and removeStaffFromDepartment applied to a    *)
(* user whose role is admin leave that user's role admin.                  *)
(***************************************************************************)
C29_AdminRoleKept ==
  [][(/\ Handles(StaffOps)
      /\ req'.assignedTo \in DOMAIN users
      /\ users[req'.assignedTo] = "admin")
       => users'[req'.assignedTo] = "admin"]_vars

(***************************************************************************)
(* C24: a step that moves a complaint with no resolvedAt into resolved at  *)
(* time T stores resolvedAt = T and actualResolutionTime = the whole hours *)
(* between createdAt and T, rounded down and not negative.                 *)
(***************************************************************************)
C24_ResolutionStamped ==
  [][\A id \in DOMAIN complaints \cap DOMAIN complaints' :
       (/\ complaints[id].status # "resolved"
        /\ complaints'[id].status = "resolved"
        /\ complaints[id].resolvedAt = Null)
         => /\ complaints'[id].resolvedAt = now
            /\ complaints'[id].actualResolutionTime =
                 (now - complaints[id].createdAt) \div TicksPerHour
            /\ complaints'[id].actualResolutionTime >= 0]_vars

(***************************************************************************)
(* C27: once resolvedAt of a complaint is set, no step changes its         *)
(* resolvedAt or its actualResolutionTime.                                 *)
(***************************************************************************)
C27_ResolutionStampKept ==
  [][\A id \in DOMAIN complaints \cap DOMAIN complaints' :
       complaints[id].resolvedAt # Null
         => /\ complaints'[id].resolvedAt = complaints[id].resolvedAt
            /\ complaints'[id].actualResolutionTime =
                 complaints[id].actualResolutionTime]_vars

\* the domain event that a message of the given name notifies of
DomainEvent(name) ==
  CASE name \in {"new-complaint", "emergency-complaint"} -> "ComplaintCreated"
    [] name \in {"status-update", "complaint-update"} -> "StatusChanged"
    [] name = "assignment-update" -> "AssignmentChanged"
    [] OTHER -> "UpdateAdded"

(***************************************************************************)
(* C25: of the messages a request has emitted, no connection is reached    *)
(* by two for the same domain event of the same complaint, whatever rooms  *)
(* it has joined and however often it joined them; a join emits nothing,   *)
(* so a connection that joins later is not reached by an earlier event.    *)
(***************************************************************************)
C25_DeliveredAtMostOnce ==
  /\ \A s \in Sockets :
       LET got == Delivered(emitted, s)
       IN \A i, j \in 1..Len(got) :
            (/\ i < j
             /\ got[i].complaint = got[j].complaint)
              => DomainEvent(got[i].event) # DomainEvent(got[j].event)
  /\ req.op \in {"join-role-room", "join-complaint-room"} => emitted = << >>

(***************************************************************************)
(* C26: status updates are not serialized.  The write of every suspended   *)
(* update succeeds whatever was written since it read the complaint: it    *)
(* answers 200, the stored status is the one it wrote, and the event it    *)
(* publishes carries the status it read as oldStatus.  So two updates that *)
(* read the same status both succeed, the last write wins and both events  *)
(* carry the same oldStatus, also when the first wrote resolved.           *)
(***************************************************************************)
C26_LastWriteWins ==
  [][\A p \in BagToSet(pending) :
       (/\ p.stage = "updateWrite"
        /\ pending' = pending (-) SetToBag({p})
        /\ Exists(p.id))
         => /\ res' = 200
            /\ complaints'[p.id].status = p.status
            /\ p.status # p.oldStatus
                 => /\ Len(emitted') = 2
                    /\ emitted'[1].oldStatus = p.oldStatus
                    /\ emitted'[1].newStatus = p.status]_vars

\* Two updates read status submitted; the first has written resolved, with
\* answer 200 and oldStatus submitted; the second, which writes in_progress,
\* is still to write.
C26_Witness ==
  /\ Exists(1)
  /\ complaints[1].status = "resolved"
  /\ req.op = "updateComplaint" /\ req.status = "resolved" /\ res = 200
  /\ Len(emitted) = 2 /\ emitted[1].oldStatus = "submitted"
  /\ \E p \in BagToSet(pending) :
       p.stage = "updateWrite" /\ p.oldStatus = "submitted" /\ p.status = "in_progress"

ControllerOps == {"createComplaint", "updateComplaint", "addComplaintUpdate",
                  "rateComplaint", "assignComplaint"}

(***************************************************************************)
(* C30: a controller operation on complaints that answers 400 or 404       *)
(* leaves users, departments, complaints and reviews as they were and      *)
(* publishes nothing; and a step that publishes events answers with        *)
(* success and the complaint the events are about is in the store.         *)
(***************************************************************************)
C30_RejectedHasNoEffect ==
  [][Handles(ControllerOps) =>
       /\ res' \in {400, 404}
            => /\ UNCHANGED <<users, departments, complaints, reviews>>
               /\ emitted' = << >>
       /\ emitted' # << >>
            => /\ res' \in {200, 201}
               /\ \A i \in 1..Len(emitted') : emitted'[i].complaint \in DOMAIN complaints']_vars

\* assignComplaint has refused an assignee who is no provider, for a
\* complaint that exists
C30_Witness ==
  /\ req.op = "assignComplaint"
  /\ res = 400
  /\ Exists(req.id)
  /\ ~isProvider(req.assignedTo)
  /\ complaints[req.id].assignedTo # req.assignedTo

====
